---- MODULE Spec2Model ----
(***************************************************************************)
(* The adaptive interview session of a-annor/ai_interviewer: the Streamlit *)
(* script app.py (one action per script pass) and the question policy and  *)
(* poor-area predicates of utils.py.  Texts are sequences of tokens, " "   *)
(* being whitespace, so that str.strip() and the question post-processing  *)
(* are computed rather than assumed.                                       *)
(***************************************************************************)
EXTENDS Integers, Sequences, FiniteSets, TLC

VARIABLES
    topic,            \* st.session_state.topic
    subtopics,        \* st.session_state.subtopics
    sub_idx,          \* st.session_state.sub_idx (0-based)
    turns_in_sub,     \* st.session_state.turns_in_sub
    last_scores,      \* st.session_state.last_scores: <<>> is None, <<d>> is the dict d
    history_sub,      \* st.session_state.history_sub
    full_history,     \* st.session_state.full_history
    poor_areas,       \* st.session_state.poor_areas
    question,         \* st.session_state.question
    style,            \* st.session_state.style
    awaiting_answer,  \* st.session_state.awaiting_answer
    finished,         \* st.session_state.finished
    rerun,            \* st.rerun() was called: the script runs again before any input
    form,             \* the answer form was rendered by the latest pass
    lastOp,           \* what the latest script pass was
    calls,            \* the collaborators the latest pass invoked
    err,              \* what the latest pass surfaced (st.warning/st.error/raised exception)
    context,          \* the local `context` of the latest answer submission
    grading,          \* what ask_llm + clean_json gave the latest answer submission
    policy_args,      \* what the latest pass passed to ask_question: <<>> or <<args>>
    max_subtopics,    \* the "Max subtopics" slider as the latest resolving Start read it
    arg,              \* the argument of a library function of utils.py called on its own
    out               \* what that call returned: <<>> before the call, <<r>> after it

sess == <<topic, subtopics, sub_idx, turns_in_sub, last_scores, history_sub,
          full_history, poor_areas, question, style, awaiting_answer, finished>>

vars == <<topic, subtopics, sub_idx, turns_in_sub, last_scores, history_sub,
          full_history, poor_areas, question, style, awaiting_answer, finished,
          rerun, form, lastOp, calls, err, context, grading, policy_args,
          max_subtopics, arg, out>>

-----------------------------------------------------------------------------
(* Bounds of the model *)

\* largest value of the "Max subtopics" slider explored
MaxSubtopics == 2

\* answer submissions of a session: the Turns recorded, plus the submissions of
\* the current subtopic that recorded none
MaxTurns == 3

\* Turns of a session recorded with a blank question text
MaxBlankTurns == 0

\* longest text given to clean_json, beside the listed examples
MaxTextLen == 4

\* longest history given to the poor-area predicates
MaxHistoryLen == 2

(* Program constants *)

\* app.py:263  if st.session_state.turns_in_sub >= 2
TurnLimit == 2

\* utils.py:165  return subs[:3]
GeneratedCap == 3

\* utils.py:194, 204  c <= 1, s <= 1
LowScore == 1

\* utils.py:241, 251  max_c < 2, max_s < 2
GoodScore == 2

\* app.py:31-33  st.sidebar.slider("Max subtopics", 1, 5, 2)
SliderDefault == 2

-----------------------------------------------------------------------------
(* Text: sequences of tokens *)

Min(a, b) == IF a < b THEN a ELSE b

\* s[:n]
Take(s, n) == SubSeq(s, 1, Min(n, Len(s)))

RECURSIVE LStrip(_)
LStrip(s) == IF s = <<>> THEN <<>>
             ELSE IF Head(s) = " " THEN LStrip(Tail(s)) ELSE s

RECURSIVE RStrip(_)
RStrip(s) == IF s = <<>> THEN <<>>
             ELSE IF s[Len(s)] = " " THEN RStrip(SubSeq(s, 1, Len(s) - 1)) ELSE s

\* str.strip()
Strip(s) == RStrip(LStrip(s))

\* [f(x) for x in s]
RECURSIVE StripAll(_)
StripAll(s) == IF s = <<>> THEN <<>> ELSE <<Strip(Head(s))>> \o StripAll(Tail(s))

NonBlank(t) == Strip(t) # <<>>

-----------------------------------------------------------------------------
(* JSON values of a grading reply *)

Missing == [k |-> "missing", n |-> 0]
IntV(i) == [k |-> "int", n |-> i]
NumStr(i) == [k |-> "numstr", n |-> i]
BadV == [k |-> "bad", n |-> 0]

NoEvidence == [k |-> "missing", verdict |-> "", reason |-> ""]
EmptyMap == [k |-> "empty", verdict |-> "", reason |-> ""]
EvMap(v, r) == [k |-> "map", verdict |-> v, reason |-> r]
NonMapEv == [k |-> "nonmap", verdict |-> "", reason |-> ""]

Dict(c, s, e) == [correctness |-> c, specificity |-> s, evidence |-> e]

EmptyDict == Dict(Missing, Missing, NoEvidence)

\* d.get(key, 0)
GetOr0(v) == IF v.k = "missing" THEN IntV(0) ELSE v

\* int(x) succeeds
Convertible(v) == v.k \in {"int", "numstr"}

\* int(x)
IntOf(v) == v.n

\* result.get("evidence", {})
GetEvidence(d) == IF d.evidence.k = "missing" THEN EmptyMap ELSE d.evidence

\* bool(x) of a dict, and of an evidence value
TruthyDict(d) == d # EmptyDict
TruthyEv(e) == e.k \in {"map", "nonmap"}

-----------------------------------------------------------------------------
(* utils.py: clean_json.  A text is a sequence of tokens: the characters     *)
(* "{", "}", "[", "]" and ",", whitespace " ", a quoted key with its colon   *)
(* ("c:" is "correctness":), a number, and "x" for any other character.      *)

JsonKeys == <<"c:", "k:", "s:">>
JsonNumbers == {"1", "2"}

\* s.find(t): the first index of t, 0 for Python's -1
RECURSIVE Find(_, _)
Find(s, t) ==
    IF s = <<>> THEN 0
    ELSE IF Head(s) = t THEN 1
    ELSE LET r == Find(Tail(s), t) IN IF r = 0 THEN 0 ELSE r + 1

\* s.rfind(t): the last index of t, 0 for Python's -1
RECURSIVE RFind(_, _)
RFind(s, t) ==
    IF s = <<>> THEN 0
    ELSE IF s[Len(s)] = t THEN Len(s)
    ELSE RFind(SubSeq(s, 1, Len(s) - 1), t)

\* s.replace("," + closer, closer): left to right, without overlap
RECURSIVE ReplaceCommaBefore(_, _)
ReplaceCommaBefore(s, closer) ==
    IF s = <<>> THEN <<>>
    ELSE IF Len(s) >= 2 /\ s[1] = "," /\ s[2] = closer
         THEN <<closer>> \o ReplaceCommaBefore(Tail(Tail(s)), closer)
         ELSE <<Head(s)>> \o ReplaceCommaBefore(Tail(s), closer)

ParseError == [ok |-> FALSE, val |-> <<>>]
NoParse == [ok |-> FALSE, val |-> <<>>, rest |-> <<>>]

\* a parsed mapping written back as tokens, keys in the order of JsonKeys
RECURSIVE MembersText(_, _, _)
MembersText(m, i, sep) ==
    IF i > Len(JsonKeys) THEN <<>>
    ELSE IF JsonKeys[i] \in DOMAIN m
         THEN sep \o <<JsonKeys[i]>> \o m[JsonKeys[i]] \o MembersText(m, i + 1, <<",">>)
         ELSE MembersText(m, i + 1, sep)

ObjectText(m) == <<"{">> \o MembersText(m, 1, <<>>) \o <<"}">>

\* the JSON decoder: a value, the members of an object, the elements of an array
RECURSIVE ParseValue(_), ParseMembers(_, _), ParseElements(_, _)

\* json.loads of an object: `m` maps each key to its value, a later duplicate winning
ParseObject(s0) ==
    LET s == LStrip(s0)
    IN  IF s = <<>> \/ Head(s) # "{" THEN NoParse
        ELSE LET t == LStrip(Tail(s))
             IN  IF t # <<>> /\ Head(t) = "}"
                 THEN [ok |-> TRUE, val |-> <<>>, rest |-> Tail(t)]
                 ELSE ParseMembers(t, <<>>)

ParseMembers(s0, m) ==
    LET s == LStrip(s0)
    IN  IF s = <<>> \/ Head(s) \notin {JsonKeys[i] : i \in 1..Len(JsonKeys)} THEN NoParse
        ELSE LET v == ParseValue(Tail(s))
                 key == Head(s)
                 m1 == [k \in DOMAIN m \cup {key} |-> IF k = key THEN v.val ELSE m[k]]
                 t == LStrip(v.rest)
             IN  IF ~v.ok \/ t = <<>> THEN NoParse
                 ELSE IF Head(t) = "}" THEN [ok |-> TRUE, val |-> m1, rest |-> Tail(t)]
                 ELSE IF Head(t) = "," THEN ParseMembers(Tail(t), m1)
                 ELSE NoParse

ParseElements(s0, acc) ==
    LET v == ParseValue(s0)
        t == LStrip(v.rest)
    IN  IF ~v.ok \/ t = <<>> THEN NoParse
        ELSE IF Head(t) = "]"
             THEN [ok |-> TRUE, val |-> acc \o v.val \o <<"]">>, rest |-> Tail(t)]
        ELSE IF Head(t) = "," THEN ParseElements(Tail(t), acc \o v.val \o <<",">>)
        ELSE NoParse

ParseValue(s0) ==
    LET s == LStrip(s0)
    IN  IF s = <<>> THEN NoParse
        ELSE IF Head(s) \in JsonNumbers
             THEN [ok |-> TRUE, val |-> <<Head(s)>>, rest |-> Tail(s)]
        ELSE IF Head(s) = "["
             THEN LET t == LStrip(Tail(s))
                  IN  IF t # <<>> /\ Head(t) = "]"
                      THEN [ok |-> TRUE, val |-> <<"[", "]">>, rest |-> Tail(t)]
                      ELSE ParseElements(t, <<"[">>)
        ELSE IF Head(s) = "{"
             THEN LET o == ParseObject(s)
                  IN  IF o.ok
                      THEN [ok |-> TRUE, val |-> ObjectText(o.val), rest |-> o.rest]
                      ELSE NoParse
        ELSE NoParse

\* json.loads(candidate): the whole candidate must be one object
json_loads(s) ==
    LET o == ParseObject(s)
    IN  IF o.ok /\ LStrip(o.rest) = <<>> THEN [ok |-> TRUE, val |-> o.val]
        ELSE ParseError

\* clean_json with s.find("}") for s.rfind("}")
CleanJsonToFirstClose(text) ==
    LET s == Strip(text)
        start == Find(s, "{")
        end == Find(s, "}")
    IN  IF start = 0 \/ end = 0 \/ end <= start THEN ParseError
        ELSE json_loads(ReplaceCommaBefore(
                 ReplaceCommaBefore(SubSeq(s, start, end), "}"), "]"))

\* clean_json(text): [ok |-> FALSE] is the raised JSONDecodeError
clean_json(text) ==
    LET s == Strip(text)
        start == Find(s, "{")
        end == RFind(s, "}")
    IN  IF start = 0 \/ end = 0 \/ end <= start THEN ParseError
        ELSE json_loads(ReplaceCommaBefore(
                 ReplaceCommaBefore(SubSeq(s, start, end), "}"), "]"))

-----------------------------------------------------------------------------
(* utils.py: the question policy *)

QuestionLabels == {"Question:", "QUESTION:"}
AnswerLabels == {"Answer:", "answer:", "ANSWER:"}

\* q.replace("Question:", "").replace("QUESTION:", "")
RemoveLabels(s) == SelectSeq(s, LAMBDA t : t \notin QuestionLabels)

\* re.split(r"(?i)\banswer\s*:", q)[0]
RECURSIVE BeforeAnswer(_)
BeforeAnswer(s) == IF s = <<>> THEN <<>>
                   ELSE IF Head(s) \in AnswerLabels THEN <<>>
                   ELSE <<Head(s)>> \o BeforeAnswer(Tail(s))

\* the post-processing of the gateway's reply in ask_question
CleanQuestion(raw) == Strip(BeforeAnswer(Strip(RemoveLabels(raw))))

\* `not last_scores`: None, or a dict without keys
NoScores(ls) == ls = <<>> \/ ~TruthyDict(ls[1])

\* int(last_scores.get(...)) raises in ask_question
ScoresRaise(ls) ==
    /\ ~NoScores(ls)
    /\ \/ ~Convertible(GetOr0(ls[1].correctness))
       \/ ~Convertible(GetOr0(ls[1].specificity))

\* the style ask_question selects
StyleFor(ls) ==
    IF NoScores(ls) THEN "seed"
    ELSE LET c == IntOf(GetOr0(ls[1].correctness))
             s == IntOf(GetOr0(ls[1].specificity))
         IN  IF c <= LowScore THEN "checkpoint"
             ELSE IF s <= LowScore THEN "probe"
             ELSE "next"

\* ask_question: reply is what ask_llm does, [ok |-> FALSE] when it raises
AskQuestion(tp, sub, ls, prev_q, prev_a, reply) ==
    IF ScoresRaise(ls) \/ ~reply.ok
    THEN [raised |-> TRUE, q |-> <<>>, style |-> ""]
    ELSE [raised |-> FALSE, q |-> CleanQuestion(reply.text), style |-> StyleFor(ls)]

-----------------------------------------------------------------------------
(* utils.py: the poor-area predicates *)

\* any(h["style"] == st for h in history)
Asked(history, st) == \E i \in 1..Len(history) : history[i].style = st

\* the scores max() runs over: h.get("scores") is truthy
Scored(history) == {i \in 1..Len(history) : TruthyDict(history[i].scores)}

\* max(xs, default=0)
MaxOr0(xs) == IF xs = {} THEN 0 ELSE CHOOSE m \in xs : \A x \in xs : x <= m

\* max_c: the largest int(h["scores"].get("correctness", 0))
MaxCorrectness(history) ==
    MaxOr0({IntOf(GetOr0(history[i].scores.correctness)) : i \in Scored(history)})

\* max_s: the largest int(h["scores"].get("specificity", 0))
MaxSpecificity(history) ==
    MaxOr0({IntOf(GetOr0(history[i].scores.specificity)) : i \in Scored(history)})

\* still_poor_after_checkpoint with max_c taken over the checkpoint Turns alone
StillPoorOverCheckpointTurns(history) ==
    /\ Asked(history, "checkpoint")
    /\ MaxOr0({IntOf(GetOr0(history[i].scores.correctness)) :
                  i \in {j \in Scored(history) : history[j].style = "checkpoint"}})
           < GoodScore

still_poor_after_checkpoint(history) ==
    Asked(history, "checkpoint") /\ MaxCorrectness(history) < GoodScore

\* still_poor_after_probe with the specificity of the latest Turn for max_s
StillPoorAfterProbeLatest(history) ==
    /\ Asked(history, "probe")
    /\ IntOf(GetOr0(history[Len(history)].scores.specificity)) < GoodScore

still_poor_after_probe(history) ==
    Asked(history, "probe") /\ MaxSpecificity(history) < GoodScore

-----------------------------------------------------------------------------
(* utils.py: get_subtopics *)

\* [s.strip() for s in data.get("subtopics", []) if s.strip()]
CleanSubtopics(items) == SelectSeq(StripAll(items), LAMBDA t : t # <<>>)

\* get_subtopics with ask_llm inside the try: a raising gateway falls back too
GetSubtopicsSwallowing(tp, gen) ==
    IF gen.k \in {"raise", "unparseable"} THEN [raised |-> FALSE, subs |-> <<tp>>]
    ELSE LET subs == CleanSubtopics(gen.items)
         IN  [raised |-> FALSE,
              subs |-> IF subs # <<>> THEN Take(subs, GeneratedCap) ELSE <<tp>>]

\* get_subtopics: gen is what ask_llm + clean_json give; ask_llm raising escapes
get_subtopics(tp, gen) ==
    IF gen.k = "raise" THEN [raised |-> TRUE, subs |-> <<>>]
    ELSE IF gen.k = "unparseable" THEN [raised |-> FALSE, subs |-> <<tp>>]
    ELSE LET subs == CleanSubtopics(gen.items)
         IN  [raised |-> FALSE,
              subs |-> IF subs # <<>> THEN Take(subs, GeneratedCap) ELSE <<tp>>]

-----------------------------------------------------------------------------
(* app.py: the session state as one record, and the steps of the script *)

Cur == [topic |-> topic, subtopics |-> subtopics, sub_idx |-> sub_idx,
        turns_in_sub |-> turns_in_sub, last_scores |-> last_scores,
        history_sub |-> history_sub, full_history |-> full_history,
        poor_areas |-> poor_areas, question |-> question, style |-> style,
        awaiting_answer |-> awaiting_answer, finished |-> finished,
        rerun |-> rerun, form |-> form, lastOp |-> lastOp, calls |-> calls,
        err |-> err, context |-> context, grading |-> grading,
        policy_args |-> policy_args, max_subtopics |-> max_subtopics]

Commit(S) ==
    /\ topic' = S.topic
    /\ subtopics' = S.subtopics
    /\ sub_idx' = S.sub_idx
    /\ turns_in_sub' = S.turns_in_sub
    /\ last_scores' = S.last_scores
    /\ history_sub' = S.history_sub
    /\ full_history' = S.full_history
    /\ poor_areas' = S.poor_areas
    /\ question' = S.question
    /\ style' = S.style
    /\ awaiting_answer' = S.awaiting_answer
    /\ finished' = S.finished
    /\ rerun' = S.rerun
    /\ form' = S.form
    /\ lastOp' = S.lastOp
    /\ calls' = S.calls
    /\ err' = S.err
    /\ context' = S.context
    /\ grading' = S.grading
    /\ policy_args' = S.policy_args
    /\ max_subtopics' = S.max_subtopics
    /\ UNCHANGED <<arg, out>>

NoGrading == [k |-> "none", r |-> EmptyDict]

\* a script pass begins: nothing rendered, called or surfaced yet
BeginPass(S, op) ==
    [S EXCEPT !.rerun = FALSE, !.form = FALSE, !.lastOp = op, !.calls = {},
              !.err = "none", !.context = <<>>, !.grading = NoGrading,
              !.policy_args = <<>>]

\* init_state()
init_state(S, user_topic) ==
    [S EXCEPT !.topic = Strip(user_topic),
              !.subtopics = <<>>,
              !.sub_idx = 0,
              !.turns_in_sub = 0,
              !.last_scores = <<>>,
              !.history_sub = <<>>,
              !.full_history = <<>>,
              !.poor_areas = <<>>,
              !.question = <<>>,
              !.style = "",
              !.awaiting_answer = FALSE,
              !.finished = FALSE]

\* user_subtopics = [s.strip() for s in user_subtopics if s.strip()]
UserSubtopics(fields) == SelectSeq(StripAll(fields), LAMBDA t : t # <<>>)

\* valid_subtopics
valid_subtopics(fields) ==
    Len(UserSubtopics(fields)) = 0 \/ Len(UserSubtopics(fields)) = Len(fields)

\* which generation outcome the latest Start met
GenLabel(gen) ==
    IF gen.k = "raise" THEN "start_gen_raised"
    ELSE IF gen.k = "parsed" /\ \E i \in 1..Len(gen.items) : NonBlank(gen.items[i])
         THEN "start_gen"
         ELSE "start_gen_fallback"

\* ResolveSubtopics without the [:max_subtopics] of line 99
ResolveSubtopicsUncut(S, fields, gen) ==
    IF UserSubtopics(fields) # <<>>
    THEN [S EXCEPT !.subtopics = UserSubtopics(fields), !.lastOp = "start_manual"]
    ELSE LET r == get_subtopics(S.topic, gen)
             S1 == [S EXCEPT !.calls = @ \cup {"subtopics"}, !.lastOp = GenLabel(gen)]
         IN  IF r.raised
             THEN [S1 EXCEPT !.err = "Failed to get subtopics"]
             ELSE [S1 EXCEPT !.subtopics = r.subs]

\* the subtopics the start handler resolves for a non-blank topic
ResolveSubtopics(S, fields, gen) ==
    IF UserSubtopics(fields) # <<>>
    THEN [S EXCEPT !.subtopics = UserSubtopics(fields), !.lastOp = "start_manual"]
    ELSE LET r == get_subtopics(S.topic, gen)
             S1 == [S EXCEPT !.calls = @ \cup {"subtopics"}, !.lastOp = GenLabel(gen)]
         IN  IF r.raised
             THEN [S1 EXCEPT !.err = "Failed to get subtopics"]
             ELSE [S1 EXCEPT !.subtopics = Take(r.subs, Len(fields))]

\* if start_button: ...
StartHandler(S, user_topic, fields, gen) ==
    LET S1 == init_state(S, user_topic)
    IN  IF S1.topic = <<>>
        THEN [S1 EXCEPT !.err = "Enter a topic", !.lastOp = "start_blank"]
        ELSE [ResolveSubtopics(S1, fields, gen) EXCEPT !.rerun = TRUE,
                                                       !.max_subtopics = Len(fields)]

\* the reason strings of a PoorArea
CheckpointReason == "correctness stayed < 2 after a checkpoint question"
ProbeReason == "specificity stayed < 2 after a probe question"

ZeroScores == Dict(IntV(0), IntV(0), NoEvidence)
NoAnswerEvidence == EvMap("insufficient", "no answer")
DefaultResult == Dict(IntV(0), IntV(0), EvMap("insufficient", "Could not parse JSON"))

Entry(sub, st, q, a, sc, ev) ==
    [subtopic |-> sub, style |-> st, question |-> q, answer |-> a,
     scores |-> sc, evidence |-> ev]

\* PrevAnswer read from the history of the whole session
PrevAnswerOfSession(S) ==
    IF S.full_history # <<>> THEN S.full_history[Len(S.full_history)].answer ELSE <<>>

\* prev_q, prev_a of the question-needed step
PrevQuestion(S) ==
    IF S.history_sub # <<>> THEN S.history_sub[Len(S.history_sub)].question ELSE <<>>
PrevAnswer(S) ==
    IF S.history_sub # <<>> THEN S.history_sub[Len(S.history_sub)].answer ELSE <<>>

\* if not st.session_state.question or not st.session_state.awaiting_answer
QuestionNeeded(S) == S.question = <<>> \/ ~S.awaiting_answer

\* the question-needed step; err "Failed to generate question" is followed by st.stop()
QuestionStep(S, sub, reply) ==
    IF ~QuestionNeeded(S) THEN S
    ELSE LET r == AskQuestion(S.topic, sub, S.last_scores,
                              PrevQuestion(S), PrevAnswer(S), reply)
             S1 == [S EXCEPT !.calls = @ \cup {"question"},
                             !.policy_args = <<[last_scores |-> S.last_scores,
                                                prev_q |-> PrevQuestion(S),
                                                prev_a |-> PrevAnswer(S)]>>]
         IN  IF r.raised
             THEN [S1 EXCEPT !.err = "Failed to generate question"]
             ELSE [S1 EXCEPT !.question = r.q, !.style = r.style,
                             !.awaiting_answer = TRUE]

\* FlagPoorArea with the probe predicate left out of the outer test
FlagPoorAreaCheckpointOnly(S, sub) ==
    IF still_poor_after_checkpoint(S.history_sub)
    THEN [S EXCEPT !.poor_areas =
              Append(@, [subtopic |-> sub, reasons |-> <<CheckpointReason>>,
                         turns |-> S.history_sub])]
    ELSE S

\* the poor-area flagging of a closing subtopic
FlagPoorArea(S, sub) ==
    IF still_poor_after_checkpoint(S.history_sub) \/ still_poor_after_probe(S.history_sub)
    THEN LET reasons ==
                 (IF still_poor_after_checkpoint(S.history_sub)
                  THEN <<CheckpointReason>> ELSE <<>>)
                 \o (IF still_poor_after_probe(S.history_sub)
                     THEN <<ProbeReason>> ELSE <<>>)
         IN  [S EXCEPT !.poor_areas =
                  Append(@, [subtopic |-> sub, reasons |-> reasons,
                             turns |-> S.history_sub])]
    ELSE S

\* FinishIfLast with > for >=
FinishIfPastLast(S) ==
    IF S.sub_idx > Len(S.subtopics) THEN [S EXCEPT !.finished = TRUE] ELSE S

\* FinishIfLast with the index of the last subtopic for the length of the list
FinishIfReachedLast(S) ==
    IF S.sub_idx >= Len(S.subtopics) - 1 THEN [S EXCEPT !.finished = TRUE] ELSE S

\* if st.session_state.sub_idx >= len(subtopics): finished = True
FinishIfLast(S) ==
    IF S.sub_idx >= Len(S.subtopics) THEN [S EXCEPT !.finished = TRUE] ELSE S

\* Advance with the pending question left in place
AdvanceKeepingQuestion(S) ==
    FinishIfLast([S EXCEPT !.sub_idx = @ + 1,
                           !.turns_in_sub = 0,
                           !.last_scores = <<>>,
                           !.history_sub = <<>>,
                           !.style = ""])

\* Advance with full_history reset as history_sub is
AdvanceClearingHistory(S) ==
    FinishIfLast([S EXCEPT !.sub_idx = @ + 1,
                           !.turns_in_sub = 0,
                           !.last_scores = <<>>,
                           !.history_sub = <<>>,
                           !.full_history = <<>>,
                           !.question = <<>>,
                           !.style = ""])

\* advance to the next subtopic or finish
Advance(S) ==
    FinishIfLast([S EXCEPT !.sub_idx = @ + 1,
                           !.turns_in_sub = 0,
                           !.last_scores = <<>>,
                           !.history_sub = <<>>,
                           !.question = <<>>,
                           !.style = ""])

\* moved: if st.session_state.turns_in_sub >= 2
Moved(S) == S.turns_in_sub >= TurnLimit

\* the advancement check after a graded answer
AdvanceCheck(S, sub) == IF Moved(S) THEN Advance(FlagPoorArea(S, sub)) ELSE S

\* EmptyAnswer with the advancement check run before the rerun
EmptyAnswerAdvancing(S, sub) ==
    LET entry == Entry(sub, S.style, S.question, <<>>, ZeroScores, NoAnswerEvidence)
    IN  [AdvanceCheck([S EXCEPT !.history_sub = Append(@, entry),
                                !.full_history = Append(@, entry),
                                !.last_scores = <<ZeroScores>>,
                                !.awaiting_answer = FALSE], sub)
            EXCEPT !.rerun = TRUE, !.lastOp = "submit_empty"]

\* the branch of an empty answer, up to its st.rerun()
EmptyAnswer(S, sub) ==
    LET entry == Entry(sub, S.style, S.question, <<>>, ZeroScores, NoAnswerEvidence)
    IN  [S EXCEPT !.history_sub = Append(@, entry),
                  !.full_history = Append(@, entry),
                  !.last_scores = <<ZeroScores>>,
                  !.awaiting_answer = FALSE,
                  !.rerun = TRUE,
                  !.lastOp = "submit_empty"]

\* context = build_wiki_context(...) inside try/except
BuildContext(S, wiki) ==
    LET S1 == [S EXCEPT !.calls = @ \cup {"evidence"}]
    IN  IF wiki = "raise" THEN [S1 EXCEPT !.err = "Wikipedia context unavailable"]
        ELSE IF wiki = "text" THEN [S1 EXCEPT !.context = <<"ctx">>]
        ELSE S1

\* result = clean_json(ask_llm(grading_prompt)) inside try/except
GradedResult(g) == IF g.k = "parsed" THEN g.r ELSE DefaultResult

\* lines 237-243 raise: int() of a non-number, or .get of a truthy non-mapping
ShowScoresRaises(result) ==
    \/ ~Convertible(GetOr0(result.correctness))
    \/ ~Convertible(GetOr0(result.specificity))
    \/ (TruthyEv(GetEvidence(result)) /\ GetEvidence(result).k = "nonmap")

\* record the graded answer in the session history
RecordGraded(S, sub, answer, result) ==
    LET entry == Entry(sub, S.style, S.question, answer, result, GetEvidence(result))
    IN  [S EXCEPT !.history_sub = Append(@, entry),
                  !.full_history = Append(@, entry),
                  !.last_scores = <<result>>,
                  !.awaiting_answer = FALSE]

\* the branch of a non-empty answer, up to its st.rerun() or the escaping exception
GradedAnswer(S, sub, answer, wiki, g) ==
    LET S1 == [BuildContext(S, wiki) EXCEPT !.calls = @ \cup {"grading"},
                                            !.grading = g]
        result == GradedResult(g)
    IN  IF ShowScoresRaises(result)
        THEN [S1 EXCEPT !.err = "exception", !.lastOp = "submit_raised"]
        ELSE [AdvanceCheck(RecordGraded(S1, sub, answer, result), sub)
                  EXCEPT !.rerun = TRUE, !.lastOp = "submit_graded"]

\* if submitted: ...
SubmitHandler(S, sub, answer, wiki, g) ==
    LET S1 == [S EXCEPT !.turns_in_sub = @ + 1]
    IN  IF Strip(answer) = <<>> THEN EmptyAnswer(S1, sub)
        ELSE GradedAnswer(S1, sub, answer, wiki, g)

\* the final report: one summary call, no session state written
FinalReport(S, summary) ==
    [S EXCEPT !.calls = @ \cup {"summary"},
              !.err = IF summary = "raise" THEN "Could not generate summary" ELSE @]

\* the main flow of one script pass
MainFlow(S, reply, submitted, answer, wiki, g, summary) ==
    IF S.finished THEN FinalReport(S, summary)
    ELSE IF S.subtopics = <<>> THEN [S EXCEPT !.err = "Enter a topic"]
    ELSE IF S.sub_idx >= Len(S.subtopics) THEN [S EXCEPT !.err = "exception"]
    ELSE LET sub == S.subtopics[S.sub_idx + 1]
             S1 == QuestionStep(S, sub, reply)
         IN  IF S1.err = "Failed to generate question" THEN S1
             ELSE IF submitted
                  THEN SubmitHandler([S1 EXCEPT !.form = TRUE], sub, answer, wiki, g)
                  ELSE [S1 EXCEPT !.form = TRUE]

-----------------------------------------------------------------------------
(* The inputs of a script pass *)

\* what the user types as the topic
TopicInputs == {<<" ">>, <<" ", "T">>}

\* what the user types into the i-th subtopic field
SubtopicNames == <<"T", "B", "C", "D", "E">>
FieldInputs(i) == {<<" ">>, <<SubtopicNames[i], " ">>}

\* the subtopic fields of a slider value n
Fields(n) == {f \in [1..n -> UNION {FieldInputs(i) : i \in 1..n}] :
                 \A i \in 1..n : f[i] \in FieldInputs(i)}

\* what ask_llm + clean_json give get_subtopics
GenOutcomes ==
    {[k |-> "raise", items |-> <<>>],
     [k |-> "unparseable", items |-> <<>>],
     [k |-> "parsed", items |-> << <<" ">> >>],
     [k |-> "parsed", items |-> << <<" ", "T">>, <<>>, <<"B">>, <<"C">>, <<"D">> >>]}

\* what ask_llm gives ask_question
QuestionReplies ==
    {[ok |-> FALSE, text |-> <<>>],
     [ok |-> TRUE, text |-> <<"Question:", " ">>],
     [ok |-> TRUE, text |-> <<"Question:", " ", "Q", " ", "Answer:", "A">>]}

\* what the user submits
Answers == {<<>>, <<" ">>, <<"a">>}

\* what build_wiki_context does
WikiOutcomes == {"raise", "text"}

Supported == EvMap("supported", "r")

\* what ask_llm + clean_json give the grading
GradeOutcomes ==
    {[k |-> "raise", r |-> EmptyDict],
     [k |-> "unparseable", r |-> EmptyDict],
     [k |-> "parsed", r |-> Dict(IntV(1), IntV(2), Supported)],
     [k |-> "parsed", r |-> Dict(IntV(2), IntV(1), Supported)],
     [k |-> "parsed", r |-> Dict(IntV(2), IntV(2), Supported)],
     [k |-> "parsed", r |-> EmptyDict],
     [k |-> "parsed", r |-> Dict(BadV, IntV(2), Supported)]}

\* what ask_llm does for the summary
SummaryOutcomes == {"ok", "raise"}

-----------------------------------------------------------------------------
(* The specification *)

\* the script's state after the first pass: init_state() with an empty topic box
ScriptIdle ==
    /\ topic = <<>>
    /\ subtopics = <<>>
    /\ sub_idx = 0
    /\ turns_in_sub = 0
    /\ last_scores = <<>>
    /\ history_sub = <<>>
    /\ full_history = <<>>
    /\ poor_areas = <<>>
    /\ question = <<>>
    /\ style = ""
    /\ awaiting_answer = FALSE
    /\ finished = FALSE
    /\ rerun = FALSE
    /\ form = FALSE
    /\ lastOp = "init"
    /\ calls = {}
    /\ err = "Enter a topic"
    /\ context = <<>>
    /\ grading = NoGrading
    /\ policy_args = <<>>
    /\ max_subtopics = SliderDefault

\* the application: no library function is called on its own
Init == ScriptIdle /\ arg = <<>> /\ out = <<>>

\* the inputs a pass does not read are fixed, so that no pass is enumerated twice
NoGen == [k |-> "raise", items |-> <<>>]
NoReply == [ok |-> FALSE, text |-> <<>>]

\* the inputs of a Start: the topic box, the subtopic fields (as many as the
\* slider says) and, when the handler generates, the generation outcome
StartInputs ==
    {<<user_topic, <<>>, NoGen>> : user_topic \in {t \in TopicInputs : Strip(t) = <<>>}}
    \cup
    UNION {UNION {
        {<<user_topic, fields, gen>> :
            gen \in IF UserSubtopics(fields) = <<>> THEN GenOutcomes ELSE {NoGen}} :
        fields \in {f \in UNION {Fields(n) : n \in 1..MaxSubtopics} : valid_subtopics(f)}} :
      user_topic \in {t \in TopicInputs : Strip(t) # <<>>}}

\* the question replies a pass from the current state reads
RepliesRead ==
    IF ~finished /\ subtopics # <<>> /\ QuestionNeeded(Cur)
    THEN QuestionReplies ELSE {NoReply}

\* a pass with the Start/Restart button pressed
StartButton ==
    /\ ~rerun
    /\ \E in \in StartInputs :
         \E S \in {StartHandler(BeginPass(Cur, "start"), in[1], in[2], in[3])} :
            Commit(S)

\* a pass without a button: the rerun st.rerun() asked for, or any other widget event
ScriptRerun ==
    \E reply \in RepliesRead, summary \in IF finished THEN SummaryOutcomes ELSE {"ok"} :
        \E S \in {MainFlow(BeginPass(Cur, "render"), reply, FALSE, <<>>, "text",
                          NoGrading, summary)} :
           Commit(S)

\* the Turns recorded with a blank question text
BlankTurns(history) ==
    Cardinality({i \in 1..Len(history) : history[i].question = <<>>})

\* the question replies a submission pass reads, within MaxBlankTurns
SubmitReplies ==
    {r \in RepliesRead :
        (QuestionNeeded(Cur) /\ r.ok /\ CleanQuestion(r.text) = <<>>)
            => BlankTurns(full_history) < MaxBlankTurns}

\* a pass with the answer form submitted
SubmitAnswer ==
    /\ ~rerun
    /\ form
    /\ Len(full_history) + (turns_in_sub - Len(history_sub)) < MaxTurns
    /\ \E reply \in SubmitReplies, answer \in Answers :
         \E wiki \in IF Strip(answer) = <<>> THEN {"text"} ELSE WikiOutcomes,
            g \in IF Strip(answer) = <<>> THEN {NoGrading} ELSE GradeOutcomes :
              \E S \in {MainFlow(BeginPass(Cur, "submit"), reply, TRUE, answer, wiki, g,
                                "ok")} :
                 Commit(S)

Next == StartButton \/ ScriptRerun \/ SubmitAnswer

Spec == Init /\ [][Next]_vars

\* Streamlit runs the pass st.rerun() asked for; the candidate is assumed to keep
\* answering and, in the end, to press Start/Restart again
FairSpec ==
    Spec /\ WF_vars(ScriptRerun) /\ WF_vars(SubmitAnswer) /\ WF_vars(StartButton)

-----------------------------------------------------------------------------
(* One session followed without end *)

\* What the progress of a session reads of an unbounded past is turns_in_sub
\* through `turns_in_sub >= 2` and the latest Turn of the subtopic, so a session
\* of any length is followed in finitely many states by keeping the latest
\* MaxTurns Turns of the histories and counting turns_in_sub up to MaxTurns.
DropOldest(history, n) ==
    IF n >= Len(history) THEN <<>> ELSE SubSeq(history, n + 1, Len(history))

Window(S) ==
    LET over == IF Len(S.full_history) > MaxTurns
                THEN Len(S.full_history) - MaxTurns ELSE 0
        kept == Len(S.full_history) - over
        overSub == IF Len(S.history_sub) > kept THEN Len(S.history_sub) - kept ELSE 0
    IN  [S EXCEPT !.full_history = DropOldest(@, over),
                  !.history_sub = DropOldest(@, overSub),
                  !.turns_in_sub = Min(@, MaxTurns)]

\* a Start pass when no session is running
StartSession ==
    /\ subtopics = <<>> \/ finished
    /\ StartButton

\* a pass with the answer form submitted, at any point of the session
AnswerQuestion ==
    /\ ~rerun
    /\ form
    /\ \E reply \in SubmitReplies, answer \in Answers :
         \E wiki \in IF Strip(answer) = <<>> THEN {"text"} ELSE WikiOutcomes,
            g \in IF Strip(answer) = <<>> THEN {NoGrading} ELSE GradeOutcomes :
              \E S \in {Window(MainFlow(BeginPass(Cur, "submit"), reply, TRUE, answer,
                                        wiki, g, "ok"))} :
                 Commit(S)

SessionNext == StartSession \/ ScriptRerun \/ AnswerQuestion

\* Streamlit runs the pass st.rerun() asked for, and the candidate answers every
\* question put to them: the form is shown again and again, so it is submitted
LiveSpec ==
    /\ Init
    /\ [][SessionNext]_vars
    /\ WF_vars(ScriptRerun)
    /\ SF_vars(AnswerQuestion)

-----------------------------------------------------------------------------
(* The library functions of utils.py called on their own *)

\* everything of the state but arg and out
script == <<topic, subtopics, sub_idx, turns_in_sub, last_scores, history_sub,
            full_history, poor_areas, question, style, awaiting_answer, finished,
            rerun, form, lastOp, calls, err, context, grading, policy_args,
            max_subtopics>>

\* the texts clean_json is given: every text of MaxTextLen tokens at most, and
\* longer ones with noise around the object, trailing commas, arrays, nesting,
\* whitespace, duplicate keys, inverted and unbalanced braces
TextTokens == {"x", "{", "}", ",", "k:", "1"}

ExampleTexts ==
    {<<"x", "{", "c:", "2", ",", "s:", "1", ",", "}", "x">>,
     <<" ", "{", "c:", "2", ",", "s:", "1", "}", " ">>,
     <<"{", "k:", "[", "1", ",", "2", ",", "]", ",", "}">>,
     <<"{", "k:", "[", "1", ",", ",", "]", "}">>,
     <<"{", "k:", "1", ",", ",", "}">>,
     <<"{", "k:", "1", ",", " ", "}">>,
     <<"{", "k:", "{", "s:", "1", ",", "}", ",", "}">>,
     <<"{", "k:", "1", ",", "k:", "2", "}">>,
     <<"{", "c:", "1", "}", "x", "{", "s:", "2", "}">>,
     <<"x", "}", "x", "{", "k:", "1">>,
     <<"[", "{", "k:", "1", "}", ",", "]">>,
     <<"x", "x", "x", "x", "x">>}

NormalizerInit ==
    /\ ScriptIdle
    /\ \/ \E n \in 0..MaxTextLen : arg \in [1..n -> TextTokens]
       \/ arg \in ExampleTexts
    /\ out = <<>>

\* result = clean_json(raw)
CallCleanJson ==
    /\ out = <<>>
    /\ out' = <<clean_json(arg)>>
    /\ UNCHANGED <<arg, script>>

NormalizerSpec == NormalizerInit /\ [][CallCleanJson]_vars

\* the histories the poor-area predicates are given: Turns as the data model
\* types them, every style with every pair of scores, and the Turns app.py:251
\* records of a grading reply {}
Styles == {"seed", "checkpoint", "probe", "next"}
ScoreRange == 0..3

TurnsGiven ==
    {Entry(<<"T">>, st, <<"Q">>, <<"a">>, Dict(IntV(c), IntV(s), NoEvidence), EmptyMap) :
        st \in Styles, c \in ScoreRange, s \in ScoreRange}
    \cup {Entry(<<"T">>, st, <<"Q">>, <<"a">>, EmptyDict, EmptyMap) : st \in Styles}

PredicatesInit ==
    /\ ScriptIdle
    /\ \E n \in 0..MaxHistoryLen : arg \in [1..n -> TurnsGiven]
    /\ out = <<>>

\* still_poor_after_checkpoint(history), still_poor_after_probe(history)
CallPoorAreaPredicates ==
    /\ out = <<>>
    /\ out' = <<[checkpoint |-> still_poor_after_checkpoint(arg),
                 probe |-> still_poor_after_probe(arg)]>>
    /\ UNCHANGED <<arg, script>>

PredicatesSpec == PredicatesInit /\ [][CallPoorAreaPredicates]_vars

-----------------------------------------------------------------------------
(* The vocabulary of the specification document, used to state the claims *)

StartOps == {"start_blank", "start_manual", "start_gen", "start_gen_raised",
             "start_gen_fallback"}

\* a step that is an answer submission recording a Turn
RecordsTurn == Len(full_history') = Len(full_history) + 1

\* the Turn a step records
NewTurn == full_history'[Len(full_history')]

\* a step that closes the current subtopic
ClosesSubtopic == sub_idx' = sub_idx + 1

\* Scores.correctness / Scores.specificity of a recorded Turn (0 when not given)
ScoreOf(v) == IF v.k = "missing" THEN 0 ELSE v.n

\* section 4.2: the style selected for lastScores
PolicyStyle(ls) ==
    IF ls = <<>> THEN "seed"
    ELSE IF ScoreOf(ls[1].correctness) <= 1 THEN "checkpoint"
    ELSE IF ScoreOf(ls[1].specificity) <= 1 THEN "probe"
    ELSE "next"

\* section 4.3: the poor-area predicates
poorAfterCheckpoint(history) ==
    /\ \E i \in 1..Len(history) : history[i].style = "checkpoint"
    /\ \A i \in 1..Len(history) : ScoreOf(history[i].scores.correctness) < 2

poorAfterProbe(history) ==
    /\ \E i \in 1..Len(history) : history[i].style = "probe"
    /\ \A i \in 1..Len(history) : ScoreOf(history[i].scores.specificity) < 2

\* the reason strings of the predicates that are true
ReasonsOf(history) ==
    (IF poorAfterCheckpoint(history)
     THEN <<"correctness stayed < 2 after a checkpoint question">> ELSE <<>>)
    \o (IF poorAfterProbe(history)
        THEN <<"specificity stayed < 2 after a probe question">> ELSE <<>>)

-----------------------------------------------------------------------------
(* C1 *)

\* C1: after every recorded Turn, empty answer or not, a subtopic holding 2 Turns
\* closes in that same step; so no reachable state has an open subtopic with 2 or
\* more recorded Turns.  (Stated on the recorded Turns, which a submission that
\* raises does not add to.)
C1_ClosesAtTurnLimit == Len(history_sub) < TurnLimit

-----------------------------------------------------------------------------
(* C2 *)

\* C2: a pass that submits a blank answer records exactly one Turn with scores
\* {correctness: 0, specificity: 0} and evidence {insufficient, "no answer"},
\* adds 1 to turns_in_sub, clears awaiting_answer, calls neither the evidence
\* lookup nor the grading gateway, and leaves sub_idx, poor_areas and finished
\* as they were.
C2_EmptyAnswerStep ==
    [][lastOp' = "submit_empty" =>
        /\ RecordsTurn
        /\ full_history' = Append(full_history, NewTurn)
        /\ history_sub' = Append(history_sub, NewTurn)
        /\ NewTurn.answer = <<>>
        /\ NewTurn.scores.correctness = IntV(0)
        /\ NewTurn.scores.specificity = IntV(0)
        /\ NewTurn.evidence = EvMap("insufficient", "no answer")
        /\ turns_in_sub' = turns_in_sub + 1
        /\ awaiting_answer' = FALSE
        /\ "evidence" \notin calls'
        /\ "grading" \notin calls'
        /\ sub_idx' = sub_idx
        /\ poor_areas' = poor_areas
        /\ finished' = finished]_vars

\* a blank answer was just recorded as the second Turn of its subtopic
C2_Witness == lastOp = "submit_empty" /\ Len(history_sub) = 2 /\ turns_in_sub = 2

-----------------------------------------------------------------------------
(* C3 *)

\* the grading failed: the gateway raised, its reply did not parse, or it parsed
\* with a missing or malformed score field
GradingFailed(g) ==
    \/ g.k \in {"raise", "unparseable"}
    \/ g.k = "parsed" /\ g.r.correctness.k # "int"
    \/ g.k = "parsed" /\ g.r.specificity.k # "int"

\* C3: a pass that submits a non-blank answer records exactly one Turn, adds 1 to
\* turns_in_sub (before any closure resets it), clears awaiting_answer and lets no
\* raw error escape, whatever the evidence lookup and the grading do; when the
\* grading failed the recorded result is the default zero result.
C3_GradedAnswerStep ==
    [][lastOp' \in {"submit_graded", "submit_raised"} =>
        /\ RecordsTurn
        /\ awaiting_answer' = FALSE
        /\ err' # "exception"
        /\ turns_in_sub' = IF ClosesSubtopic THEN 0 ELSE turns_in_sub + 1
        /\ GradingFailed(grading') => NewTurn.scores = DefaultResult]_vars

-----------------------------------------------------------------------------
(* C4 *)

\* C4: the style of the pending question is the policy's function of last_scores:
\* seed when last_scores is absent, else checkpoint when correctness <= 1, else
\* probe when specificity <= 1, else next.
C4_StyleFromLastScores == awaiting_answer => style = PolicyStyle(last_scores)

-----------------------------------------------------------------------------
(* C5 *)

\* C5: with a question pending (generated, no answer recorded since), a further
\* pass of the script calls the question gateway no more and leaves question and
\* style as they were, whatever the question text, the empty one included.
C5_QuestionStepIdempotent ==
    [][(awaiting_answer /\ lastOp' = "render") =>
        /\ "question" \notin calls'
        /\ question' = question
        /\ style' = style]_vars

-----------------------------------------------------------------------------
(* C6 *)

\* the history of the closing subtopic: its earlier Turns and the one just recorded
ClosingHistory == Append(history_sub, NewTurn)

\* the PoorArea section 4.3 asks for at the closure of the current subtopic
ExpectedPoorArea ==
    [subtopic |-> subtopics[sub_idx + 1], reasons |-> ReasonsOf(ClosingHistory),
     turns |-> ClosingHistory]

\* the styles of the Turns of a history
RECURSIVE StylesOf(_)
StylesOf(history) ==
    IF history = <<>> THEN <<>>
    ELSE <<Head(history).style>> \o StylesOf(Tail(history))

\* C6: a step that closes a subtopic appends a PoorArea iff poorAfterCheckpoint or
\* poorAfterProbe holds of the closing history, with exactly the reasons of the
\* predicates that hold, the closing subtopic and the closing history; no other
\* step but a Start changes poor_areas, so there are never more PoorAreas than
\* closed subtopics; and a finished one-subtopic session with Turn styles
\* [seed, checkpoint] and correctness below 2 throughout has exactly one PoorArea,
\* whose only reason is the checkpoint one; the session whose second Turn, asked in
\* the checkpoint style, is answered and graded below 2 finishes in that step.
C6_PoorAreaAtClosure ==
    /\ [](Len(poor_areas) <= sub_idx)
    /\ []((/\ finished
           /\ Len(subtopics) = 1
           /\ StylesOf(full_history) = <<"seed", "checkpoint">>
           /\ \A i \in 1..2 : ScoreOf(full_history[i].scores.correctness) < 2)
          => /\ Len(poor_areas) = 1
             /\ poor_areas[1].reasons =
                    <<"correctness stayed < 2 after a checkpoint question">>)
    /\ [][(/\ RecordsTurn
            /\ Len(subtopics) = 1
            /\ StylesOf(full_history') = <<"seed", "checkpoint">>
            /\ NewTurn.answer # <<>>
            /\ \A i \in 1..2 : ScoreOf(full_history'[i].scores.correctness) < 2)
           => (finished' /\ Len(poor_areas') = 1)]_vars
    /\ [][ClosesSubtopic =>
            poor_areas' = IF ReasonsOf(ClosingHistory) # <<>>
                          THEN Append(poor_areas, ExpectedPoorArea)
                          ELSE poor_areas]_vars
    /\ [][(~ClosesSubtopic /\ lastOp' \notin StartOps) =>
            poor_areas' = poor_areas]_vars

\* the scenario of the specification: one subtopic, [seed, checkpoint], finished
C6_Witness ==
    /\ finished
    /\ Len(subtopics) = 1
    /\ StylesOf(full_history) = <<"seed", "checkpoint">>
    /\ Len(poor_areas) = 1
    /\ poor_areas[1].turns = full_history

-----------------------------------------------------------------------------
(* C7 *)

\* C7 as stated: some session reaches a PoorArea carrying both reason strings.
C7_BothReasonsReached ==
    <>(\E i \in 1..Len(poor_areas) : Len(poor_areas[i].reasons) = 2)

\* C7 as amended: in the running session the two predicates exclude each other.
\* A probe question is asked only after a Turn of the same subtopic scored
\* correctness >= 2, so a history holding a probe Turn never satisfies
\* poorAfterCheckpoint; no history satisfies both predicates and every PoorArea
\* carries exactly one reason string.
C7_PredicatesExclusive ==
    /\ ~(poorAfterCheckpoint(history_sub) /\ poorAfterProbe(history_sub))
    /\ (\E i \in 1..Len(history_sub) : history_sub[i].style = "probe")
           => ~poorAfterCheckpoint(history_sub)
    /\ \A i \in 1..Len(poor_areas) :
          /\ Len(poor_areas[i].reasons) = 1
          /\ ~(poorAfterCheckpoint(poor_areas[i].turns)
               /\ poorAfterProbe(poor_areas[i].turns))

\* a subtopic closed on a history holding a checkpoint Turn and a probe Turn
C7_Witness ==
    \E i \in 1..Len(poor_areas) :
        /\ \E j \in 1..Len(poor_areas[i].turns) :
              poor_areas[i].turns[j].style = "checkpoint"
        /\ \E j \in 1..Len(poor_areas[i].turns) :
              poor_areas[i].turns[j].style = "probe"

-----------------------------------------------------------------------------
(* C8 *)

\* C8: a Start/Restart pass with a blank topic changes no field of the session
\* state.
C8_BlankStartChangesNothing == [][lastOp' = "start_blank" => UNCHANGED sess]_vars

-----------------------------------------------------------------------------
(* C9 *)

\* the pre-session state
PreSession ==
    subtopics = <<>> /\ question = <<>> /\ ~awaiting_answer /\ ~finished

\* C9 as stated: whenever the generation fails (the gateway raises, the reply does
\* not parse, or it holds no usable subtopic), the Start leaves the session
\* pre-session.
C9_FailedGenerationAborts ==
    lastOp \in {"start_gen_raised", "start_gen_fallback"} => PreSession

\* C9 as amended: when the gateway call raises, the Start surfaces the error and
\* the session stays pre-session, through every later pass until the next Start;
\* when the reply does not parse or holds no usable subtopic, the Start is not
\* aborted: the SubtopicList is the one-element list [topic] and the session runs.
C9_GenerationFailure ==
    /\ lastOp = "start_gen_raised" => (PreSession /\ err = "Failed to get subtopics")
    /\ lastOp = "start_gen_fallback" => (subtopics = <<topic>> /\ rerun)
    /\ subtopics = <<>> => (PreSession /\ ~form /\ "question" \notin calls)

\* the pass after a Start whose gateway call raised: still pre-session
C9_Witness ==
    lastOp = "render" /\ topic # <<>> /\ subtopics = <<>> /\ err = "Enter a topic"

-----------------------------------------------------------------------------
(* C10 *)

\* C10: finished is set exactly by the closure that moves sub_idx past the last
\* subtopic; once finished, no pass but a Start/Restart changes a field of the
\* session state, generates a question or records a Turn, and only a
\* Start/Restart clears finished.
C10_FinishedIsTerminal ==
    /\ [][(~finished /\ finished') =>
            (ClosesSubtopic /\ sub_idx' = Len(subtopics) /\ subtopics' = subtopics)]_vars
    /\ [][(ClosesSubtopic /\ sub_idx' >= Len(subtopics)) => finished']_vars
    /\ [][(ClosesSubtopic /\ sub_idx' < Len(subtopics)) => ~finished']_vars
    /\ [][(finished /\ lastOp' \notin StartOps) =>
            (UNCHANGED sess /\ "question" \notin calls' /\ ~form')]_vars
    /\ [][(finished /\ ~finished') => lastOp' \in StartOps]_vars

\* a pass ran in the Finished state of a two-subtopic session
C10_Witness ==
    finished /\ lastOp = "render" /\ "summary" \in calls /\ Len(subtopics) = 2

-----------------------------------------------------------------------------
(* C11 *)

\* the passes that processed a submitted answer
AnswerOps == {"submit_empty", "submit_graded", "submit_raised"}

\* C11: in every started session in which each pending question is eventually
\* answered (answers keep being processed for as long as the session is not
\* finished), whatever the answers and the outcomes of evidence lookup and
\* grading, the session eventually reaches Finished.
C11_SessionFinishes ==
    ([]<>(lastOp \in AnswerOps)) => ((subtopics # <<>>) ~> finished)

-----------------------------------------------------------------------------
(* C12 *)

\* C12: in every step other than a Start/Restart, turns_in_sub is reset to 0 iff
\* the step increments sub_idx; that step also resets last_scores to none,
\* history_sub to empty and the pending question and style to empty; a step that
\* does not increment sub_idx resets none of them: turns_in_sub stays or grows by
\* 1, last_scores stays present, history_sub stays or gains the new Turn, style
\* stays non-empty, and question becomes empty only as the text the Question
\* Policy returned in that step.
C12_ResetExactlyAtClosure ==
    [][lastOp' \notin StartOps =>
        /\ sub_idx' \in {sub_idx, sub_idx + 1}
        /\ ClosesSubtopic <=> (turns_in_sub # 0 /\ turns_in_sub' = 0)
        /\ ClosesSubtopic =>
              /\ last_scores' = <<>>
              /\ history_sub' = <<>>
              /\ question' = <<>>
              /\ style' = ""
        /\ ~ClosesSubtopic =>
              /\ turns_in_sub' \in {turns_in_sub, turns_in_sub + 1}
              /\ last_scores # <<>> => last_scores' # <<>>
              /\ \/ history_sub' = history_sub
                 \/ RecordsTurn /\ history_sub' = Append(history_sub, NewTurn)
              /\ style # "" => style' # ""
              /\ (question # <<>> /\ question' = <<>>) => "question" \in calls']_vars

\* the first of two subtopics has just been closed
C12_Witness ==
    /\ lastOp = "submit_graded"
    /\ sub_idx = 1
    /\ ~finished
    /\ turns_in_sub = 0
    /\ question = <<>>
    /\ Len(full_history) = 2

-----------------------------------------------------------------------------
(* C13 *)

\* C13: for a non-empty topic and a valid subtopic configuration, a Start that
\* resolves subtopics yields a SubtopicList as long as the configured maximum when
\* it was supplied manually, and at most as long (and not empty) when generated.
C13_ResolvedLength ==
    /\ lastOp = "start_manual" => Len(subtopics) = max_subtopics
    /\ lastOp \in {"start_gen", "start_gen_fallback"} =>
          (Len(subtopics) >= 1 /\ Len(subtopics) <= max_subtopics)

\* a generated list cut to a configured maximum of 1
C13_Witness ==
    lastOp = "start_gen" /\ max_subtopics = 1 /\ subtopics = << <<"T">> >>

-----------------------------------------------------------------------------
(* C15 *)

\* C15: a generated question has style seed iff the SubtopicHistory was empty when
\* it was generated; a question generated after a Turn of the current subtopic
\* has style checkpoint, probe or next, whatever grading result was recorded.
C15_SeedIffFirstQuestion ==
    awaiting_answer =>
        /\ style = "seed" <=> history_sub = <<>>
        /\ history_sub # <<>> => style \in {"checkpoint", "probe", "next"}

-----------------------------------------------------------------------------
(* C16 *)

\* what section 4 says the Question Policy is given in the current state
ExpectedPolicyArgs ==
    IF history_sub = <<>>
    THEN [last_scores |-> <<>>, prev_q |-> <<>>, prev_a |-> <<>>]
    ELSE [last_scores |-> <<history_sub[Len(history_sub)].scores>>,
          prev_q |-> history_sub[Len(history_sub)].question,
          prev_a |-> history_sub[Len(history_sub)].answer]

\* C16: whenever the Question Policy is invoked, it is given the scores, question
\* and answer of the last Turn of the current SubtopicHistory (none and empty
\* texts when that history is empty), never those of an earlier subtopic or
\* session; in every reachable state last_scores is none iff history_sub is
\* empty, and is otherwise the scores of its last Turn.
C16_PolicyReadsLastTurn ==
    /\ [](last_scores = ExpectedPolicyArgs.last_scores)
    /\ [][policy_args' # <<>> => policy_args' = <<ExpectedPolicyArgs>>]_vars

\* the first question of the second subtopic is asked after the first one's Turns
C16_Witness ==
    /\ policy_args # <<>>
    /\ sub_idx = 1
    /\ history_sub = <<>>
    /\ Len(full_history) = 2
    /\ full_history[2].answer # <<>>

-----------------------------------------------------------------------------
(* C18 *)

\* C18: in every state of a started session the SubtopicList is non-empty and as
\* long as the maximum configured at Start, manual or generated, and no step but
\* a Start/Restart changes the topic or the SubtopicList.
C18_ListFixedAtConfiguredLength ==
    /\ [](subtopics # <<>> => Len(subtopics) = max_subtopics)
    /\ []((awaiting_answer \/ finished) => subtopics # <<>>)
    /\ [][lastOp' \notin StartOps => (topic' = topic /\ subtopics' = subtopics)]_vars

-----------------------------------------------------------------------------
(* C19 *)

\* a score the data model allows: an integer in 0..3
ValidScore(v) == v.k = "int" /\ v.n \in 0..3

\* C19: every Turn recorded in history_sub and full_history has correctness and
\* specificity that are integers in 0..3, whatever the grading gateway replied,
\* and {0, 0} when the answer is empty.
C19_RecordedScoresInRange ==
    \A h \in {history_sub, full_history} : \A i \in 1..Len(h) :
        /\ ValidScore(h[i].scores.correctness)
        /\ ValidScore(h[i].scores.specificity)
        /\ h[i].answer = <<>> =>
              (h[i].scores.correctness = IntV(0) /\ h[i].scores.specificity = IntV(0))

-----------------------------------------------------------------------------
(* C20 *)

\* C20: every step other than a Start/Restart leaves full_history unchanged or
\* appends exactly one Turn to its end; closing a subtopic and finishing never
\* shorten, reorder or alter it; the Turn a step records is appended to
\* history_sub and to full_history in that same step (history_sub being emptied
\* afterwards when the step closes the subtopic).
C20_FullHistoryAppendOnly ==
    [][lastOp' \notin StartOps =>
        \/ full_history' = full_history /\ history_sub' = history_sub
        \/ /\ RecordsTurn
           /\ full_history' = Append(full_history, NewTurn)
           /\ IF ClosesSubtopic
              THEN /\ history_sub' = <<>>
                   /\ poor_areas' # poor_areas =>
                         poor_areas'[Len(poor_areas')].turns = Append(history_sub, NewTurn)
              ELSE history_sub' = Append(history_sub, NewTurn)]_vars

\* the session finished after two closures, all three Turns still in full_history
C20_Witness ==
    /\ finished
    /\ sub_idx = 2
    /\ history_sub = <<>>
    /\ Len(full_history) = 3

-----------------------------------------------------------------------------
(* C14 *)

\* section 3: the positions of the first "{" and of the last "}" of a text
HasToken(text, t) == \E i \in 1..Len(text) : text[i] = t
FirstOpen(text) == CHOOSE i \in 1..Len(text) :
                       text[i] = "{" /\ \A j \in 1..(i - 1) : text[j] # "{"
LastClose(text) == CHOOSE i \in 1..Len(text) :
                       text[i] = "}" /\ \A j \in (i + 1)..Len(text) : text[j] # "}"

\* the candidate, a comma immediately before a closing "}" or "]" removed
Repaired(c) ==
    LET keep == {i \in 1..Len(c) :
                    ~(c[i] = "," /\ i < Len(c) /\ c[i + 1] \in {"}", "]"})}
        RECURSIVE Pick(_)
        Pick(i) == IF i > Len(c) THEN <<>>
                   ELSE IF i \in keep THEN <<c[i]>> \o Pick(i + 1) ELSE Pick(i + 1)
    IN  Pick(1)

\* what the Grading Normalizer is to give for a text
Normalized(text) ==
    IF ~HasToken(text, "{") \/ ~HasToken(text, "}") \/ LastClose(text) <= FirstOpen(text)
    THEN ParseError
    ELSE json_loads(Repaired(SubSeq(text, FirstOpen(text), LastClose(text))))

\* C14: for every text, clean_json gives the substring from the first "{" to the
\* last "}", a comma immediately before a closing "}" or "]" removed, parsed as a
\* mapping, and fails with ParseError when the text has no "{", no "}", the last
\* "}" is not after the first "{", or the repaired candidate is not valid; the
\* text noise{"correctness":2,"specificity":1,}noise gives {correctness: 2,
\* specificity: 1} and a text without braces fails.
C14_GradingNormalizer ==
    out # <<>> =>
        /\ out[1] = Normalized(arg)
        /\ arg = <<"x", "{", "c:", "2", ",", "s:", "1", ",", "}", "x">> =>
              out[1] = [ok |-> TRUE, val |-> ("c:" :> <<"2">>) @@ ("s:" :> <<"1">>)]
        /\ (~HasToken(arg, "{") /\ ~HasToken(arg, "}")) => out[1] = ParseError

\* the example of the specification has been normalized
C14_Witness ==
    /\ arg = <<"x", "{", "c:", "2", ",", "s:", "1", ",", "}", "x">>
    /\ out # <<>>
    /\ out[1].ok

-----------------------------------------------------------------------------
(* C17 *)

\* C17: for every history of bounded length, still_poor_after_checkpoint is true
\* iff some Turn has style checkpoint and the largest correctness of all Turns is
\* below 2, and still_poor_after_probe is true iff some Turn has style probe and
\* the largest specificity of all Turns is below 2; both are false of the empty
\* history; [(checkpoint, 1), (next, 1)] gives true and [(checkpoint, 2)] false.
C17_PoorAreaPredicates ==
    out # <<>> =>
        LET h == arg
        IN  /\ out[1].checkpoint <=> poorAfterCheckpoint(h)
            /\ out[1].probe <=> poorAfterProbe(h)
            /\ h = <<>> => (~out[1].checkpoint /\ ~out[1].probe)
            /\ (/\ Len(h) = 2
                /\ h[1].style = "checkpoint" /\ h[1].scores.correctness = IntV(1)
                /\ h[2].style = "next" /\ h[2].scores.correctness = IntV(1))
                  => out[1].checkpoint
            /\ (/\ Len(h) = 1
                /\ h[1].style = "checkpoint" /\ h[1].scores.correctness = IntV(2))
                  => ~out[1].checkpoint

\* the first example of the specification has been evaluated
C17_Witness ==
    /\ out # <<>>
    /\ Len(arg) = 2
    /\ arg[1].style = "checkpoint" /\ arg[1].scores.correctness = IntV(1)
    /\ arg[2].style = "next" /\ arg[2].scores.correctness = IntV(1)
    /\ out[1].checkpoint

-----------------------------------------------------------------------------
(* C21 *)

\* C21: in every reachable state turns_in_sub equals the number of Turns in
\* history_sub; no answer submission, whatever the grading reply (a reply that
\* parses but carries non-numeric score fields included), increments the counter
\* without recording a Turn or records a Turn without incrementing the counter.
C21_CounterMatchesHistory == turns_in_sub = Len(history_sub)

-----------------------------------------------------------------------------
(* C22 *)

\* C22: in every reachable state of a started session (the subtopic list is not
\* empty), 0 <= sub_idx <= len(subtopics), finished is true iff sub_idx equals
\* len(subtopics), and so whenever the session is not finished the lookup
\* subtopics[sub_idx] is in range.
C22_IndexInRange ==
    subtopics # <<>> =>
        /\ sub_idx \in 0..Len(subtopics)
        /\ finished <=> (sub_idx = Len(subtopics))
        /\ ~finished => (sub_idx + 1) \in DOMAIN subtopics

\* the first of two subtopics has closed and the second one has been looked up
\* and shown with its question
C22_Witness ==
    /\ Len(subtopics) = 2
    /\ sub_idx = 1
    /\ ~finished
    /\ form
    /\ question # <<>>

=============================================================================
